---------------------------- MODULE Spec2Model ----------------------------
(***************************************************************************)
(* The ADT7410 temperature sensor driver of                                *)
(* other_useful_functions/Arduino/src/ExtendedADT7410.{h,cpp}: a handle     *)
(* (sensorID, i2cAddress), its four public calls and the two private bus   *)
(* primitives, run against the Wire bus and one sensor.  Every public call *)
(* is synchronous and blocking, so each is one action; the Wire calls it   *)
(* issues are kept, in order, in `wire`, and the bytes each requestFrom    *)
(* delivered in `rx`.                                                      *)
(***************************************************************************)
EXTENDS Integers, Sequences, FiniteSets, TLC

(***************************************************************************)
(* ExtendedADT7410.h: addresses, registers, mode bits.                     *)
(***************************************************************************)
ADT7410_I2C_ADDRESS_0 == 72

ADT7410_REG__TEMP_MSB == 0

ADT7410_REG__TEMP_LSB == 1

ADT7410_REG__ADT7410_STATUS == 2

ADT7410_REG__CONFIG == 3

ADT7410_REG__ADT7410_ID == 11

ADT7410_MODE_16BIT == 128

ADT7410_MODE_CONTINUOUS == 0

\* unsigned char / uint8_t
Byte == 0..255

\* unsigned short on the target: 16 bits
UShort == 65536

(***************************************************************************)
(* Bounds and sampled inputs of the model.                                 *)
(***************************************************************************)
\* most bytes the bus reports available after one requestFrom (SpecBus)
MaxAvail == 3

\* largest count passed to readI2c (the driver itself uses 1 and 2)
MaxNum == 2

SensorIdArgs == {0, 1, 2, 3, 255}

StatusSample == {0, 112, 128}

\* (MSB, LSB) pairs: 0x0190, 0xFF38, 0x1FF8, 0x8FF8
TempSample == {<<1, 144>>, <<255, 56>>, <<31, 248>>, <<143, 248>>}

IdSample == {203}

\* what an uninitialised local may hold
Indeterminate == {90, 128}

BusBytes == {1, 144, 255}

\* content of a caller's buffer before readI2c fills it (SpecBus)
PriorSample == {170}

Registers == {ADT7410_REG__TEMP_MSB, ADT7410_REG__TEMP_LSB,
              ADT7410_REG__ADT7410_STATUS, ADT7410_REG__CONFIG,
              ADT7410_REG__ADT7410_ID}

VARIABLES
    sensor_id,   \* the constructor's argument
    sensorID,    \* ADT7410::sensorID
    i2cAddress,  \* ADT7410::i2cAddress
    reg,         \* the sensor's register file
    ack,         \* the sensor acknowledges its address on the bus
    op,          \* the last call made
    ret,         \* its return value
    wire,        \* the Wire calls it issued, in order
    rx,          \* the bytes each of its requestFrom calls delivered
    data,        \* SpecBus: the memory at readI2c's buffer pointer afterwards
    num          \* SpecBus: the count passed to readI2c

vars == <<sensor_id, sensorID, i2cAddress, reg, ack, op, ret, wire, rx, data, num>>

(***************************************************************************)
(* Bitwise operators of C on non-negative integers.                        *)
(***************************************************************************)
RECURSIVE BitAnd(_, _)
BitAnd(a, b) ==
    IF a = 0 \/ b = 0 THEN 0
    ELSE (IF a % 2 = 1 /\ b % 2 = 1 THEN 1 ELSE 0) + 2 * BitAnd(a \div 2, b \div 2)

RECURSIVE BitOr(_, _)
BitOr(a, b) ==
    IF a = 0 THEN b
    ELSE IF b = 0 THEN a
    ELSE (IF a % 2 = 1 \/ b % 2 = 1 THEN 1 ELSE 0) + 2 * BitOr(a \div 2, b \div 2)

Min(a, b) == IF a < b THEN a ELSE b

Max(a, b) == IF a < b THEN b ELSE a

(***************************************************************************)
(* The bus and the sensor.                                                 *)
(***************************************************************************)
\* the sensor's answer to a read of n bytes with its address pointer at p
SensorRead(p, n) ==
    [k \in 1..n |-> IF (p + k - 1) \in Registers THEN reg[p + k - 1] ELSE 0]

\* Wire.requestFrom(i2cAddress, n) after the pointer was set to p: the bytes
\* Wire then reports available.  The library never queues more than n.
Wire_requestFrom(p, n) == IF ack THEN SensorRead(p, n) ELSE <<>>

\* What an uninitialised local handed to readI2c may hold on entry.  When the
\* sensor acknowledges, the read overwrites every such local before the caller
\* reads it, so one entry value stands for all of them.
Uninit == IF ack THEN {0} ELSE Indeterminate

\* the register file after writeI2c(address, byte)
SensorWrite(address, byte) ==
    IF ack /\ address \in Registers THEN [reg EXCEPT ![address] = byte] ELSE reg

(***************************************************************************)
(* ADT7410::ADT7410(sensor_id)                                             *)
(***************************************************************************)
ADT7410_unchecked(s) ==
    [sensorID |-> s, i2cAddress |-> ADT7410_I2C_ADDRESS_0 + s]

ADT7410(s) ==
    IF s = 0 \/ s = 1 \/ s = 2
    THEN [sensorID |-> s, i2cAddress |-> ADT7410_I2C_ADDRESS_0 + s]
    ELSE [sensorID |-> 0, i2cAddress |-> ADT7410_I2C_ADDRESS_0]

(***************************************************************************)
(* ADT7410::writeI2c(address, data): the Wire calls it issues.             *)
(***************************************************************************)
writeI2c_base(address, byte) ==
    << <<"beginTransmission", ADT7410_I2C_ADDRESS_0>>, <<"write", address>>,
       <<"write", byte>>, <<"endTransmission">> >>

writeI2c(address, byte) ==
    << <<"beginTransmission", i2cAddress>>, <<"write", address>>,
       <<"write", byte>>, <<"endTransmission">> >>

(***************************************************************************)
(* ADT7410::readI2c(address, num, data).  `mem` is the memory at the       *)
(* pointer `data` on entry (the caller's object, Len(mem) cells), `avail`  *)
(* the bytes Wire reports available after requestFrom.  The loop stores    *)
(* data[i++] for as long as Wire.available(): cell k of the result beyond  *)
(* Len(mem) is a store past the caller's object.                           *)
(***************************************************************************)
readI2c(address, n, mem, avail) ==
    [wire |-> << <<"beginTransmission", i2cAddress>>, <<"write", address>>,
                 <<"endTransmission">>, <<"requestFrom", i2cAddress, n>> >>,
     data |-> [k \in 1..Max(Len(mem), Len(avail)) |->
                  IF k <= Len(avail) THEN avail[k] ELSE mem[k]],
     i    |-> Len(avail) % 256,
     rx   |-> avail]

(***************************************************************************)
(* ADT7410::getStatus().  `u` is what the uninitialised local `status`     *)
(* holds on entry.                                                         *)
(***************************************************************************)
getStatus_masked(u) ==
    LET r == readI2c(ADT7410_REG__ADT7410_STATUS, 1, <<u>>,
                     Wire_requestFrom(ADT7410_REG__ADT7410_STATUS, 1))
    IN  [ret |-> BitAnd(r.data[1], 240), wire |-> r.wire, rx |-> <<r.rx>>]

getStatus(u) ==
    LET r == readI2c(ADT7410_REG__ADT7410_STATUS, 1, <<u>>,
                     Wire_requestFrom(ADT7410_REG__ADT7410_STATUS, 1))
    IN  [ret |-> r.data[1], wire |-> r.wire, rx |-> <<r.rx>>]

(***************************************************************************)
(* ADT7410::getID()                                                        *)
(***************************************************************************)
getID == sensorID

(***************************************************************************)
(* ADT7410::initialise().  `u` is what the uninitialised local `whoami`    *)
(* holds on entry.                                                         *)
(***************************************************************************)
initConfig_nofault == BitOr(ADT7410_MODE_16BIT, ADT7410_MODE_CONTINUOUS)

\* config = ADT7410_MODE_16BIT; config |= ADT7410_MODE_CONTINUOUS; config |= 0b00000001
initConfig == BitOr(BitOr(ADT7410_MODE_16BIT, ADT7410_MODE_CONTINUOUS), 1)

initialise(u) ==
    LET r == readI2c(ADT7410_REG__ADT7410_ID, 1, <<u>>,
                     Wire_requestFrom(ADT7410_REG__ADT7410_ID, 1))
    IN  [ret  |-> r.data[1],
         wire |-> << <<"begin">> >> \o r.wire \o writeI2c(ADT7410_REG__CONFIG, initConfig),
         rx   |-> <<r.rx>>,
         reg  |-> SensorWrite(ADT7410_REG__CONFIG, initConfig)]

(***************************************************************************)
(* ADT7410::readTemperature().  `us` is what the uninitialised `status` of *)
(* getStatus holds on entry, `ud` what the uninitialised data[2] holds.    *)
(***************************************************************************)
\* if (!(status & 0x80))
ready_always(status) == TRUE

ready(status) == BitAnd(status, 128) = 0

\* lines 86-104: concatenate MSB and LSB, then the resolution-dependent branch
decode(d, config) ==
    LET t0 == BitOr((d[1] * 256) % UShort, d[2])
    IN  IF BitAnd(config, 128) # 0
        THEN LET t1 == t0 \div 8
             IN  IF BitAnd(t1, 4096) # 0 THEN (t1 - 8192) % UShort ELSE t1
        ELSE IF BitAnd(t0, 32768) # 0 THEN (t0 - 65536) % UShort ELSE t0

readTemperature_noconfig(us, ud) ==
    LET s == getStatus(us)
    IN  IF ready(s.ret)
        THEN LET t == readI2c(ADT7410_REG__TEMP_MSB, 2, ud,
                              Wire_requestFrom(ADT7410_REG__TEMP_MSB, 2))
             IN  [ret  |-> decode(t.data, 0),
                  wire |-> s.wire \o t.wire,
                  rx   |-> s.rx \o <<t.rx>>]
        ELSE [ret |-> 0, wire |-> s.wire, rx |-> s.rx]

readTemperature(us, ud) ==
    LET s == getStatus(us)
    IN  IF ready(s.ret)
        THEN LET c == readI2c(ADT7410_REG__CONFIG, 1, <<0>>,
                              Wire_requestFrom(ADT7410_REG__CONFIG, 1))
                 t == readI2c(ADT7410_REG__TEMP_MSB, 2, ud,
                              Wire_requestFrom(ADT7410_REG__TEMP_MSB, 2))
             IN  [ret  |-> decode(t.data, c.data[1]),
                  wire |-> s.wire \o c.wire \o t.wire,
                  rx   |-> s.rx \o <<c.rx, t.rx>>]
        ELSE [ret |-> 0, wire |-> s.wire, rx |-> s.rx]

(***************************************************************************)
(* Actions: one per public call, and the sensor's own steps.               *)
(***************************************************************************)
Initialise ==
    \E u \in Uninit :
        LET r == initialise(u)
        IN  /\ op' = "initialise"
            /\ ret' = r.ret
            /\ wire' = r.wire
            /\ rx' = r.rx
            /\ reg' = r.reg
            /\ UNCHANGED <<sensor_id, sensorID, i2cAddress, ack, data, num>>

GetID ==
    /\ op' = "getID"
    /\ ret' = getID
    /\ wire' = <<>>
    /\ rx' = <<>>
    /\ UNCHANGED <<sensor_id, sensorID, i2cAddress, reg, ack, data, num>>

GetStatus ==
    \E u \in Uninit :
        LET r == getStatus(u)
        IN  /\ op' = "getStatus"
            /\ ret' = r.ret
            /\ wire' = r.wire
            /\ rx' = r.rx
            /\ UNCHANGED <<sensor_id, sensorID, i2cAddress, reg, ack, data, num>>

ReadTemperature ==
    \E us \in Uninit, ud0 \in Uninit, ud1 \in Uninit :
        LET r == readTemperature(us, <<ud0, ud1>>)
        IN  /\ op' = "readTemperature"
            /\ ret' = r.ret
            /\ wire' = r.wire
            /\ rx' = r.rx
            /\ UNCHANGED <<sensor_id, sensorID, i2cAddress, reg, ack, data, num>>

\* the sensor finishes a conversion, or its status flags change
SensorConvert ==
    \E st \in StatusSample, t \in TempSample :
        /\ reg' = [reg EXCEPT ![ADT7410_REG__ADT7410_STATUS] = st,
                              ![ADT7410_REG__TEMP_MSB] = t[1],
                              ![ADT7410_REG__TEMP_LSB] = t[2]]
        /\ UNCHANGED <<sensor_id, sensorID, i2cAddress, ack, op, ret, wire, rx, data, num>>

\* the sensor is taken off the bus, or put back
SensorPlug ==
    /\ ack' = ~ack
    /\ UNCHANGED <<sensor_id, sensorID, i2cAddress, reg, op, ret, wire, rx, data, num>>

\* readI2c called on its own, with the bus reporting any number of bytes
ReadI2cCall ==
    \E address \in Registers, n \in 1..MaxNum, len \in 0..MaxAvail, p \in PriorSample :
        \E avail \in [1..len -> BusBytes] :
            LET r == readI2c(address, n, [k \in 1..n |-> p], avail)
            IN  /\ op' = "readI2c"
                /\ ret' = r.i
                /\ wire' = r.wire
                /\ rx' = <<r.rx>>
                /\ data' = r.data
                /\ num' = n
                /\ UNCHANGED <<sensor_id, sensorID, i2cAddress, reg, ack>>

(***************************************************************************)
(* Specifications.                                                         *)
(***************************************************************************)
RegFile(st, cf, t, id) ==
    [a \in Registers |->
        CASE a = ADT7410_REG__TEMP_MSB -> t[1]
          [] a = ADT7410_REG__TEMP_LSB -> t[2]
          [] a = ADT7410_REG__ADT7410_STATUS -> st
          [] a = ADT7410_REG__CONFIG -> cf
          [] OTHER -> id]

Constructed(s) ==
    /\ sensor_id = s
    /\ sensorID = ADT7410(s).sensorID
    /\ i2cAddress = ADT7410(s).i2cAddress

NoCall ==
    /\ op = "none"
    /\ ret = 0
    /\ wire = <<>>
    /\ rx = <<>>
    /\ data = <<>>
    /\ num = 0

\* a handle just constructed; the sensor in its power-on configuration (0x00)
Init ==
    /\ \E s \in SensorIdArgs : Constructed(s)
    /\ \E st \in StatusSample, t \in TempSample, id \in IdSample :
           reg = RegFile(st, 0, t, id)
    /\ ack \in BOOLEAN
    /\ NoCall

Next ==
    \/ Initialise
    \/ GetID
    \/ GetStatus
    \/ ReadTemperature
    \/ SensorConvert
    \/ SensorPlug

Spec == Init /\ [][Next]_vars

\* one input at a time over its whole range: the constructor's argument, the
\* status byte, the configuration byte, the temperature MSB, the temperature LSB
InitWide ==
    /\ ack = TRUE
    /\ NoCall
    /\ \/ /\ \E s \in Byte : Constructed(s)
          /\ \E st \in {0, 128}, id \in IdSample :
                 reg = RegFile(st, 129, <<1, 144>>, id)
       \/ /\ Constructed(0)
          /\ \E st \in Byte, t \in {<<1, 144>>, <<255, 56>>}, id \in IdSample :
                 reg = RegFile(st, 129, t, id)
       \/ /\ Constructed(0)
          /\ \E st \in {0, 128}, cf \in Byte, t \in TempSample, id \in IdSample :
                 reg = RegFile(st, cf, t, id)
       \/ /\ Constructed(0)
          /\ \E st \in {0, 128}, cf \in {0, 129}, m \in Byte, t \in TempSample,
                 id \in IdSample :
                 reg = RegFile(st, cf, <<m, t[2]>>, id)
       \/ /\ Constructed(0)
          /\ \E st \in {0, 128}, cf \in {0, 129}, l \in Byte, t \in TempSample,
                 id \in IdSample :
                 reg = RegFile(st, cf, <<t[1], l>>, id)

NextWide ==
    \/ GetID
    \/ GetStatus
    \/ ReadTemperature

SpecWide == InitWide /\ [][NextWide]_vars

InitBus ==
    /\ \E s \in {0, 1, 2} : Constructed(s)
    /\ reg = RegFile(0, 0, <<0, 0>>, 203)
    /\ ack = TRUE
    /\ NoCall

NextBus == ReadI2cCall

SpecBus == InitBus /\ [][NextBus]_vars

(***************************************************************************)
(* The claims.  A call's Wire traffic is written out here call by call,    *)
(* and its delivered bytes are read from rx: rx[1] is the status read,     *)
(* rx[2] the configuration read, rx[3] the temperature read.               *)
(***************************************************************************)
StatusReadWire ==
    << <<"beginTransmission", i2cAddress>>, <<"write", 2>>,
       <<"endTransmission">>, <<"requestFrom", i2cAddress, 1>> >>

ConfigReadWire ==
    << <<"beginTransmission", i2cAddress>>, <<"write", 3>>,
       <<"endTransmission">>, <<"requestFrom", i2cAddress, 1>> >>

TempReadWire ==
    << <<"beginTransmission", i2cAddress>>, <<"write", 0>>,
       <<"endTransmission">>, <<"requestFrom", i2cAddress, 2>> >>

\* readTemperature ran with the status byte delivered and ready, and the
\* configuration byte and both temperature bytes delivered
ReadyRead ==
    /\ op = "readTemperature"
    /\ Len(rx) = 3
    /\ Len(rx[1]) = 1 /\ rx[1][1] < 128
    /\ Len(rx[2]) = 1
    /\ Len(rx[3]) = 2

\* the big-endian 16-bit value, sign-extended at bit 15, in 16 bits
Value16(m, l) ==
    LET v == m * 256 + l
    IN  (IF v >= 32768 THEN v - 65536 ELSE v) % 65536

\* the big-endian value shifted right by 3, sign-extended at bit 12, in 16 bits
Value13(m, l) ==
    LET v == (m * 256 + l) \div 8
    IN  (IF v >= 4096 THEN v - 8192 ELSE v) % 65536

\* C1: with the status byte ready and the configuration byte read with bit 7
\* set (16-bit mode), readTemperature returns the unshifted big-endian value
\* MSB*256+LSB, sign-extended at bit 15 and packed into 16 bits (0x0190 -> 400).
C1_SixteenBitModeUnshifted ==
    (ReadyRead /\ rx[2][1] >= 128) => ret = Value16(rx[3][1], rx[3][2])

\* C2: with the status byte ready and the configuration byte read with bit 7
\* clear (13-bit mode), readTemperature returns the big-endian value shifted
\* right by 3 and sign-extended at bit 12, modulo 2^16 (0x1FF8 -> 1023).
C2_ThirteenBitModeShifted ==
    (ReadyRead /\ rx[2][1] < 128) => ret = Value13(rx[3][1], rx[3][2])

\* C3: when the status byte read has bit 7 set, readTemperature returns 0
\* whatever the configuration and temperature registers hold, and the status
\* read is the only bus transaction it issues.
C3_NotReadyReturnsZero ==
    (op = "readTemperature" /\ Len(rx) >= 1 /\ Len(rx[1]) = 1 /\ rx[1][1] >= 128)
        => (ret = 0 /\ wire = StatusReadWire /\ Len(rx) = 1)

C3_Witness ==
    /\ op = "readTemperature"
    /\ rx = << <<128>> >>
    /\ reg[ADT7410_REG__CONFIG] = 129
    /\ reg[ADT7410_REG__TEMP_MSB] = 255
    /\ reg[ADT7410_REG__TEMP_LSB] = 56
    /\ ret = 0

\* C4: for every byte s given to the constructor, s in {0,1,2} gives
\* sensorID = s and i2cAddress = 0x48 + s, and every other s gives
\* sensorID = 0 and i2cAddress = 0x48.
C4_ConstructorAddress ==
    /\ sensor_id \in {0, 1, 2} => (sensorID = sensor_id /\ i2cAddress = 72 + sensor_id)
    /\ sensor_id \notin {0, 1, 2} => (sensorID = 0 /\ i2cAddress = 72)

C4_Witness ==
    /\ sensor_id = 200
    /\ sensorID = 0
    /\ i2cAddress = 72
    /\ op = "getID"

C7_GetStatusRaw ==
    op = "getStatus" =>
        /\ wire = StatusReadWire
        /\ rx = << <<reg[ADT7410_REG__ADT7410_STATUS]>> >>
        /\ ret = reg[ADT7410_REG__ADT7410_STATUS]

C7_Witness ==
    /\ op = "getStatus"
    /\ reg[ADT7410_REG__ADT7410_STATUS] = 143
    /\ ret = 143

\* C8: after construction no call changes sensorID or i2cAddress; getID returns
\* the sensorID the constructor fixed, not the hardware ID byte; every
\* beginTransmission and requestFrom targets i2cAddress.
C8_HandleImmutable ==
    LET fixed == IF sensor_id \in {0, 1, 2} THEN sensor_id ELSE 0
    IN  /\ sensorID = fixed
        /\ i2cAddress = 72 + fixed
        /\ op = "getID" => ret = fixed
        /\ \A k \in 1..Len(wire) :
               wire[k][1] \in {"beginTransmission", "requestFrom"}
                   => wire[k][2] = 72 + fixed

C8_Witness ==
    /\ sensor_id = 1
    /\ op = "getID"
    /\ ret = 1
    /\ reg[ADT7410_REG__CONFIG] = 129
    /\ reg[ADT7410_REG__ADT7410_ID] = 203

\* C9: with the status byte ready, readTemperature issues exactly three reads,
\* in order: 1 byte of register 0x02, 1 byte of register 0x03, 2 bytes from
\* register 0x00, each a register-address write followed by a request; and
\* readTemperature never writes a data byte to a register.
C9_ReadyReadOrder ==
    op = "readTemperature" =>
        /\ (Len(rx[1]) = 1 /\ rx[1][1] < 128)
               => wire = StatusReadWire \o ConfigReadWire \o TempReadWire
        /\ \A k \in 1..Len(wire) :
               wire[k][1] = "write" => wire[k - 1][1] = "beginTransmission"

C9_Witness ==
    /\ op = "readTemperature"
    /\ rx = << <<0>>, <<129>>, <<1, 144>> >>
    /\ Len(wire) = 12

\* C10: against a sensor whose configuration register holds the byte initialise
\* wrote, a readTemperature with the status byte ready returns the unshifted
\* big-endian 16-bit value (0x0190 -> 400), never the value shifted right by 3.
C10_AfterInitialiseSixteenBit ==
    (ReadyRead /\ reg[ADT7410_REG__CONFIG] = 129 /\ rx[2] = <<129>>)
        => ret = rx[3][1] * 256 + rx[3][2]

=============================================================================
